---- MODULE Spec2Model ----
(***************************************************************************)
(* Job lifecycle of the CallDoc transcription server                       *)
(* (src/simulators/transcription/server.py): the in-memory job table, the  *)
(* per-job background worker _process_job with its suspension points       *)
(* (download, dispatch, callback), the shutdown handler, and the temporary *)
(* files the worker creates.                                               *)
(***************************************************************************)
EXTENDS Integers, Sequences, FiniteSets, TLC

(***************************************************************************)
(* Bounds of the model.                                                    *)
(***************************************************************************)
\* number of jobs that can be created
MaxJobs == 2
MaxUploads == 2
MaxWords == 16

(***************************************************************************)
(* Python values.  Optional[T] is None or Some(v); a str is a sequence of  *)
(* text pieces, so that "" is << >> and concatenation is \o.               *)
(***************************************************************************)
None == [tag |-> "None"]
Some(v) == [tag |-> "Some", val |-> v]

\* str(n) for a natural number: its decimal digits
Digit(d) ==
  CASE d = 0 -> "0" [] d = 1 -> "1" [] d = 2 -> "2" [] d = 3 -> "3"
    [] d = 4 -> "4" [] d = 5 -> "5" [] d = 6 -> "6" [] d = 7 -> "7"
    [] d = 8 -> "8" [] d = 9 -> "9"

RECURSIVE IntToStr(_)
IntToStr(n) == IF n < 10 THEN <<Digit(n)>> ELSE IntToStr(n \div 10) \o <<Digit(n % 10)>>

\* s contains t as a contiguous run of pieces (t in s)
Contains(s, t) ==
  \E i \in 1..(Len(s) + 1) :
    /\ i + Len(t) - 1 <= Len(s)
    /\ \A k \in 1..Len(t) : s[i + k - 1] = t[k]

(***************************************************************************)
(* Inputs.                                                                 *)
(***************************************************************************)
JobIds == 1..MaxJobs
UploadIds == 1..MaxUploads
\* file.filename of an upload: absent, or a name with the suffix Path gives it
UploadNames ==
  {None} \cup { Some([stem |-> "clip", suffix |-> sfx]) :
                  sfx \in { <<".", "b", "m", "p">>, << >>, <<".", "w", "a", "v">>, <<".", "o", "p", "u", "s">>,
                           <<".", "O", "P", "U", "S">> } }
RecordingIds == {"r1"}
Languages == {"en"}
RequestLanguages == {"en", "es"}
\* an audio URL: scheme, host and path up to the suffix, the suffix of its
\* path (written character by character), its query
AudioUrls ==
  { [stem |-> <<"http://", "x", "/a">>, suffix |-> << >>, query |-> ""],
    [stem |-> <<"http://", "y", "/a">>, suffix |-> <<".", "o", "P", "u", "s">>, query |-> ""] }
CallbackUrls == {None, Some(<<>>), Some(<<"http://app:3000/cb">>)}
HttpStatuses == {200, 404}
\* str(exc) of an exception raised by a collaborator (file system, network,
\* converter, engine)
ExcMessages == {<<"Connection reset by peer">>}
\* str(exc) of the aiohttp.ClientConnectorError session.get raises for a host
\* it cannot reach
ConnectError(audio_url) ==
  <<"Cannot connect to host ", audio_url.stem[2], ":80 ssl:default [Connect call failed]">>
\* what the download can raise: session.get on connecting, the read of a
\* chunk on a broken connection
DownloadExcMessages(pc, audio_url) ==
  IF pc = "download" THEN {ConnectError(audio_url)} ELSE ExcMessages
\* outcomes of the external engine path, in the order of its steps: the model
\* is None after loading, from_pretrained raises, the converter raises,
\* model.transcribe raises, the answer is empty, the result is built
NemoOutcomes ==
  {"load_failed", "load_raises", "convert_failed", "engine_raises", "empty_result", "ok"}
\* outcomes of the callback POST
CallbackOutcomes == {"ok", "non_success", "timeout", "connection_error"}

JobStatus == {"pending", "processing", "completed", "failed"}
Terminal == {"completed", "failed"}
\* progress is kept in tenths: 0.1 is 1, 1.0 is 10
ProgressUnit == 10

ShutdownError == <<"Server shutting down">>

VARIABLES
  jobs,          \* the job table: job_id -> JobInfo
  job_meta,      \* _job_meta: job_id -> {audio_url, callback_url, language}
  task,          \* the worker task of each job: its position and its locals
  fs,            \* the temporary directories: job_id -> [exists, files]
  use_nemo,      \* TRANSCRIPTION_MODE == "nemo" and NEMO_AVAILABLE
  asr_model,     \* the global the loaded engine model is cached in
  preload,       \* the thread startup() leaves loading the model: its position
  shutdownDone,  \* the shutdown handler has run
  now,           \* the wall clock: the next reading of datetime.now()
  hist,          \* per job: what has been written and what has happened so far
  response,      \* what the HTTP handler that ran in the last step returned, if one ran
  sync,          \* the POST /transcribe requests: their position, locals and answer
  engine_input,  \* what the transcription path is given: the engine's answer or the random draws
  transcription, \* the TranscriptionResult the path built from it, if it has returned one
  engine_error   \* str(exc) of what the path raised instead, if it has raised

vars == <<jobs, job_meta, task, fs, use_nemo, asr_model, preload, shutdownDone, now, hist, response, sync,
          engine_input, transcription, engine_error>>

(***************************************************************************)
(* Records.                                                                *)
(***************************************************************************)
\* JobInfo(job_id=..., recording_id=..., status=pending, progress=0.0, created_at=now)
JobInfo(job_id, recording_id, created_at) ==
  [ job_id       |-> job_id,
    recording_id |-> recording_id,
    status       |-> "pending",
    progress     |-> 0,
    created_at   |-> created_at,
    completed_at |-> None,
    error        |-> None,
    result       |-> None ]

\* a dispatcher that leaves the language the transcription path wrote
TranscriptionResult_KeepsPathLanguage(recording_id, job_id, language) ==
  [ recording_id |-> recording_id,
    job_id       |-> job_id,
    status       |-> "completed",
    language     |-> "en" ]

\* the fields _transcribe_audio stamps on the result it returns
TranscriptionResult(recording_id, job_id, language) ==
  [ recording_id |-> recording_id,
    job_id       |-> job_id,
    status       |-> "completed",
    language     |-> language ]

\* a worker task that does not exist yet
NoTask ==
  [ pc |-> "none", audio_path |-> None, tmp_dir |-> None,
    callback_url |-> None, language |-> "",
    thread |-> "none" ]   \* the executor thread of its dispatch

NoDir == [exists |-> FALSE, files |-> {}]

\* a POST /transcribe request that has not arrived
NoUpload ==
  [ pc |-> "none", filename |-> None, audio_path |-> None, tmp_dir |-> None,
    dir |-> NoDir,          \* the temporary directory of the request
    created |-> FALSE,      \* mkdtemp has made a directory for the request
    dispatched |-> FALSE,   \* _transcribe_audio has been called
    thread |-> "none",      \* the executor thread of its dispatch
    language |-> "", recording_id |-> None,   \* the query parameters
    result |-> None,        \* the TranscriptionResult answered
    status_code |-> 0, detail |-> << >> ]

\* the body an endpoint returns for a request, and no endpoint having just returned
Response(endpoint, request, body) ==
  [endpoint |-> endpoint, request |-> request, body |-> body]
NoResponse == [endpoint |-> "none"]

NoHist ==
  [ progress_log        |-> << >>,   \* every value written to progress, in order
    completed_at_writes |-> 0,       \* number of writes of completed_at
    first_terminal      |-> None,    \* result and error when a terminal status was first set
    shutdown_hit        |-> FALSE,   \* shutdown found the job in processing
    callbacks           |-> 0,       \* number of callback POSTs started
    callback_outcome    |-> None,    \* how the callback POST ended
    download_status     |-> None,    \* HTTP status the download answered with
    dispatch_ok         |-> FALSE,   \* _transcribe_audio returned a result
    raised              |-> None,    \* what a collaborator raised into the worker
    events              |-> << >>,   \* what the worker has done, in order
    exit                |-> "none" ] \* how the worker ended

\* truth value of an Optional[str]: None and "" are false
Truthy(opt) == opt.tag = "Some" /\ opt.val # << >>

\* Path(audio_url.split("?")[0]).suffix or ".wav"
UrlExt(audio_url) == IF audio_url.suffix # << >> THEN audio_url.suffix ELSE <<".", "w", "a", "v">>

\* str.lower(): piece by piece, on the ASCII letters
LowerChar(c) ==
  CASE c = "A" -> "a" [] c = "B" -> "b" [] c = "C" -> "c" [] c = "D" -> "d"
    [] c = "E" -> "e" [] c = "F" -> "f" [] c = "G" -> "g" [] c = "H" -> "h"
    [] c = "I" -> "i" [] c = "J" -> "j" [] c = "K" -> "k" [] c = "L" -> "l"
    [] c = "M" -> "m" [] c = "N" -> "n" [] c = "O" -> "o" [] c = "P" -> "p"
    [] c = "Q" -> "q" [] c = "R" -> "r" [] c = "S" -> "s" [] c = "T" -> "t"
    [] c = "U" -> "u" [] c = "V" -> "v" [] c = "W" -> "w" [] c = "X" -> "x"
    [] c = "Y" -> "y" [] c = "Z" -> "z" [] OTHER -> c

Lower(str) == [i \in DOMAIN str |-> LowerChar(str[i])]

\* str.endswith(suffix)
StrEndsWith(str, suffix) ==
  /\ Len(suffix) <= Len(str)
  /\ SubSeq(str, Len(str) - Len(suffix) + 1, Len(str)) = suffix

\* audio_path.lower().endswith((".opus", ".ogg", ".webm"))
NeedsConversion(audio_path) ==
  \E suffix \in { <<".", "o", "p", "u", "s">>, <<".", "o", "g", "g">>, <<".", "w", "e", "b", "m">> } :
     StrEndsWith(Lower(audio_path), suffix)

\* input_path.rsplit(".", 1)[0] + ".wav"
WavPath(input_path) ==
  LET dots == {i \in DOMAIN input_path : input_path[i] = "."}
      head == IF dots = {} THEN input_path
              ELSE SubSeq(input_path, 1, (CHOOSE i \in dots : \A k \in dots : k <= i) - 1)
  IN  head \o <<".", "w", "a", "v">>

\* _convert_opus_to_wav: the .wav is written next to its input
convert_opus_to_wav(dir, input_path) ==
  [dir EXCEPT !.files = @ \cup {WavPath(input_path)}]

\* the finally block of _process_job: unlink audio_path, then rmdir tmp_dir,
\* which fails (and is ignored) when the directory is not empty
Cleanup(dir, audio_path, tmp_dir) ==
  LET afterUnlink ==
        IF audio_path # None /\ dir.exists /\ audio_path.val \in dir.files
          THEN [dir EXCEPT !.files = @ \ {audio_path.val}]
          ELSE dir
  IN  IF tmp_dir # None /\ afterUnlink.exists /\ afterUnlink.files = {}
        THEN [afterUnlink EXCEPT !.exists = FALSE]
        ELSE afterUnlink

\* an except block that also puts progress back to 0
FailedJob_ResetsProgress(job, msg, t) ==
  [job EXCEPT !.status = "failed", !.error = Some(msg), !.completed_at = Some(t),
              !.progress = 0]

\* the except block of _process_job
FailedJob(job, msg, t) ==
  [job EXCEPT !.status = "failed", !.error = Some(msg), !.completed_at = Some(t)]

\* the history of a job after a step that turned its record from old to new
Recorded(h, new, progress_writes, wrote_terminal) ==
  [h EXCEPT
     !.progress_log = @ \o progress_writes,
     !.completed_at_writes = IF wrote_terminal THEN @ + 1 ELSE @,
     !.first_terminal =
        IF @ = None /\ wrote_terminal
          THEN Some([result |-> new.result, error |-> new.error])
          ELSE @ ]

(***************************************************************************)
(* Initial state: empty job table, no task, no temporary directory.        *)
(***************************************************************************)
InitServer ==
  /\ jobs = [j \in {} |-> None]
  /\ job_meta = [j \in {} |-> None]
  /\ task = [j \in JobIds |-> NoTask]
  /\ fs = [j \in JobIds |-> NoDir]
  /\ use_nemo \in BOOLEAN
  /\ asr_model = None
  /\ preload = "unstarted"
  /\ shutdownDone = FALSE
  /\ now = 0
  /\ hist = [j \in JobIds |-> NoHist]
  /\ response = NoResponse
  /\ sync = [r \in UploadIds |-> NoUpload]
  /\ transcription = None
  /\ engine_error = None

\* the server with no transcription under study
Init == InitServer /\ engine_input = None

\* the server takes requests once its startup handler has run
Started == preload # "unstarted"

(***************************************************************************)
(* POST /jobs                                                              *)
(***************************************************************************)
\* an identifier generator that hands out the same identifier again
uuid4_Reuses == IF DOMAIN jobs = {} THEN 1 ELSE CHOOSE j \in DOMAIN jobs : TRUE

\* str(uuid.uuid4()): an identifier no job of the table has
uuid4 == Cardinality(DOMAIN jobs) + 1

\* table[key] = value
\* an assignment that keeps only the entry it writes
DictSet_Forgets(table, key, value) == [k \in {key} |-> value]

DictSet(table, key, value) ==
  [k \in DOMAIN table \cup {key} |-> IF k = key THEN value ELSE table[k]]

create_job(recording_id, audio_url, callback_url, language) ==
  /\ Started
  /\ ~shutdownDone
  /\ uuid4 \in JobIds
  /\ LET job_id == uuid4 IN
     /\ jobs' = DictSet(jobs, job_id, JobInfo(job_id, recording_id, now))
     /\ job_meta' = DictSet(job_meta, job_id,
          [audio_url |-> audio_url, callback_url |-> callback_url, language |-> language])
     /\ task' = [task EXCEPT ![job_id] = [NoTask EXCEPT !.pc = "start"]]
     /\ hist' = [hist EXCEPT ![job_id] = Recorded(NoHist, jobs'[job_id], <<0>>, FALSE)]
     /\ response' = Response("create_job",
          [recording_id |-> recording_id, audio_url |-> audio_url,
           callback_url |-> callback_url, language |-> language], jobs'[job_id])
  /\ now' = now + 1
  /\ UNCHANGED <<fs, use_nemo, asr_model, preload, shutdownDone>>

\* GET /jobs/{job_id}
NotFound == [status_code |-> 404]

\* a lookup that finds no job
get_job_NeverFinds(job_id) == NotFound

get_job(job_id) == IF job_id \in DOMAIN jobs THEN jobs[job_id] ELSE NotFound

\* the handler of GET /jobs/{job_id} runs: it has no await and writes nothing
GetJobRequest(job_id) ==
  /\ Started
  /\ response' = Response("get_job", job_id, get_job(job_id))
  /\ UNCHANGED <<jobs, job_meta, task, fs, use_nemo, asr_model, preload, shutdownDone, now, hist, sync,
               engine_input, transcription, engine_error>>

(***************************************************************************)
(* GET /health                                                             *)
(***************************************************************************)
MODEL_NAME == <<"nvidia/parakeet-tdt-0.6b-v2">>

\* sum(1 for j in jobs.values() if j.status in (pending, processing)) over ids
RECURSIVE CountActive(_, _)
CountActive(ids, counted) ==
  IF ids = {} THEN 0
  ELSE LET k == CHOOSE k \in ids : TRUE
       IN  (IF jobs[k].status \in counted THEN 1 ELSE 0) + CountActive(ids \ {k}, counted)

\* a health check that counts only the jobs in processing
health_OnlyProcessing ==
  LET mode == IF use_nemo THEN "nemo" ELSE "mock"
  IN  [ status |-> "ok", mode |-> mode,
        model |-> IF mode = "nemo" THEN Some(MODEL_NAME) ELSE None,
        active_jobs |-> CountActive(DOMAIN jobs, {"processing"}) ]

\* the body of GET /health (nemo_available, which the model does not keep apart
\* from the mode, is left out)
health ==
  LET mode == IF use_nemo THEN "nemo" ELSE "mock"
  IN  [ status |-> "ok", mode |-> mode,
        model |-> IF mode = "nemo" THEN Some(MODEL_NAME) ELSE None,
        active_jobs |-> CountActive(DOMAIN jobs, {"pending", "processing"}) ]

HealthRequest ==
  /\ Started
  /\ response' = Response("health", None, health)
  /\ UNCHANGED <<jobs, job_meta, task, fs, use_nemo, asr_model, preload, shutdownDone, now, hist, sync,
               engine_input, transcription, engine_error>>

(***************************************************************************)
(* _process_job: one action per run between two suspension points.         *)
(***************************************************************************)
\* the worker ends in its except block with str(exc) = msg, then cleans up;
\* h is the history of the job up to the raise
\* an except block that fails every job of the table
WorkerFails_FailsAll(j, job, msg, log, h) ==
  /\ jobs' = [k \in DOMAIN jobs |->
       IF k = j THEN FailedJob(job, msg, now) ELSE FailedJob(jobs[k], msg, now)]
  /\ now' = now + 1
  /\ fs' = [fs EXCEPT ![j] = Cleanup(@, task[j].audio_path, task[j].tmp_dir)]
  /\ hist' = [hist EXCEPT ![j] =
       [Recorded(h, jobs'[j], log, TRUE) EXCEPT
          !.exit = "failed", !.events = Append(@, "failed")]]

WorkerFails(j, job, msg, log, h) ==
  /\ jobs' = [jobs EXCEPT ![j] = FailedJob(job, msg, now)]
  /\ now' = now + 1
  /\ fs' = [fs EXCEPT ![j] = Cleanup(@, task[j].audio_path, task[j].tmp_dir)]
  /\ hist' = [hist EXCEPT ![j] =
       [Recorded(h, jobs'[j], log, TRUE) EXCEPT
          !.exit = "failed", !.events = Append(@, "failed")]]

\* from the start of the task to the await of session.get, with mkdtemp succeeding
ProcessJobStart(j) ==
  /\ task[j].pc = "start"
  /\ LET job == [jobs[j] EXCEPT !.status = "processing", !.progress = 2]
         ext == UrlExt(job_meta[j].audio_url)
     IN  /\ jobs' = [jobs EXCEPT ![j] = job]
         /\ task' = [task EXCEPT ![j] =
              [ pc |-> "download",
                audio_path |-> Some(<<"audio">> \o ext),
                tmp_dir |-> Some(j),
                callback_url |-> job_meta[j].callback_url,
                language |-> job_meta[j].language,
                thread |-> "none" ]]
         /\ fs' = [fs EXCEPT ![j] = [exists |-> TRUE, files |-> {}]]
         /\ hist' = [hist EXCEPT ![j] =
              [Recorded(@, job, <<1, 2>>, FALSE) EXCEPT
                 !.events = @ \o <<"processing", "download">>]]
  /\ UNCHANGED <<job_meta, use_nemo, asr_model, preload, shutdownDone, now>>

\* the same run when tempfile.mkdtemp raises
ProcessJobMkdtempFails(j, msg) ==
  /\ task[j].pc = "start"
  /\ LET job == [jobs[j] EXCEPT !.status = "processing", !.progress = 2]
     IN  WorkerFails(j, job, msg, <<1, 2>>,
                     [hist[j] EXCEPT !.events = Append(@, "processing"),
                                     !.raised = Some(<<"mkdtemp", msg>>)])
  /\ task' = [task EXCEPT ![j] =
       [@ EXCEPT !.pc = "done", !.callback_url = job_meta[j].callback_url,
                 !.language = job_meta[j].language]]
  /\ UNCHANGED <<job_meta, use_nemo, asr_model, preload, shutdownDone>>

\* a message that leaves the status out
DownloadError_NoStatus(status) == <<"Failed to download audio">>

\* f"Failed to download audio: HTTP {resp.status}"
DownloadError(status) == <<"Failed to download audio: HTTP ">> \o IntToStr(status)

\* session.get answers: a status other than 200 raises, 200 opens audio_path
DownloadResponse(j, status) ==
  /\ task[j].pc = "download"
  /\ LET h == [hist[j] EXCEPT !.download_status = Some(status)]
     IN  IF status # 200
           THEN /\ WorkerFails(j, jobs[j], DownloadError(status), << >>, h)
                /\ task' = [task EXCEPT ![j].pc = "done"]
           ELSE /\ fs' = [fs EXCEPT ![j].files = @ \cup {task[j].audio_path.val}]
                /\ task' = [task EXCEPT ![j].pc = "chunks"]
                /\ hist' = [hist EXCEPT ![j] = h]
                /\ UNCHANGED <<jobs, now>>
  /\ UNCHANGED <<job_meta, use_nemo, asr_model, preload, shutdownDone>>

\* session.get or the read of a chunk raises (connection error, timeout)
DownloadRaises(j, msg) ==
  /\ task[j].pc \in {"download", "chunks"}
  /\ msg \in DownloadExcMessages(task[j].pc, job_meta[j].audio_url)
  /\ WorkerFails(j, jobs[j], msg, << >>,
                 [hist[j] EXCEPT !.raised = Some(<<"download", msg>>)])
  /\ task' = [task EXCEPT ![j].pc = "done"]
  /\ UNCHANGED <<job_meta, use_nemo, asr_model, preload, shutdownDone>>

\* a worker that goes on to dispatch without waiting for the download
DownloadDone_SkipsDownload(j) ==
  /\ task[j].pc \in {"download", "chunks"}
  /\ jobs' = [jobs EXCEPT ![j].progress = 4]
  /\ task' = [task EXCEPT ![j].pc = "dispatch",
                          ![j].thread = IF use_nemo THEN "start" ELSE "none"]
  /\ hist' = [hist EXCEPT ![j] =
       [Recorded(@, jobs'[j], <<4>>, FALSE) EXCEPT !.events = Append(@, "dispatch")]]
  /\ UNCHANGED <<job_meta, fs, use_nemo, asr_model, preload, shutdownDone, now>>

\* the body is read to its end: progress 0.4, then the await of
\* _transcribe_audio, which in nemo mode hands the file to an executor thread
DownloadDone(j) ==
  /\ task[j].pc = "chunks"
  /\ jobs' = [jobs EXCEPT ![j].progress = 4]
  /\ task' = [task EXCEPT ![j].pc = "dispatch",
                          ![j].thread = IF use_nemo THEN "start" ELSE "none"]
  /\ hist' = [hist EXCEPT ![j] =
       [Recorded(@, jobs'[j], <<4>>, FALSE) EXCEPT !.events = Append(@, "dispatch")]]
  /\ UNCHANGED <<job_meta, fs, use_nemo, asr_model, preload, shutdownDone, now>>

(***************************************************************************)
(* The executor thread of a dispatch in nemo mode: _transcribe_with_nemo   *)
(* runs in it while the caller waits in `await _transcribe_audio`.  The    *)
(* position of a thread says what it holds: "start" before the test of the *)
(* global, "loading" inside from_pretrained, "returning" before the global *)
(* is read again by `return asr_model`, "no_model" and "loaded" with the   *)
(* value _load_nemo_model returned, "converted" after the conversion.      *)
(* Threads share asr_model without a lock.  What a thread does without a   *)
(* write (raising, calling the engine) is seen when its caller resumes.    *)
(***************************************************************************)
LoadedModel == Some(MODEL_NAME)

\* what from_pretrained can return
LoadResults == {None, LoadedModel}

\* `if asr_model is None and NEMO_AVAILABLE`: load, or go on to the return
TestModel == IF asr_model = None THEN "loading" ELSE "returning"

\* `model = _load_nemo_model()`: the thread holds what `return asr_model`
\* read from the global
HoldsModel == IF asr_model = None THEN "no_model" ELSE "loaded"

\* the thread has got to the call of model.transcribe
ThreadReady(thread, audio_path) ==
  thread = IF NeedsConversion(audio_path) THEN "converted" ELSE "loaded"

\* the thread of job j starts and tests the global
ThreadStarts(j) ==
  /\ task[j].thread = "start"
  /\ task' = [task EXCEPT ![j].thread = TestModel]
  /\ UNCHANGED <<jobs, job_meta, fs, use_nemo, asr_model, preload, shutdownDone, now, hist>>

\* from_pretrained returns to the thread of job j, which assigns the global
ThreadLoads(j, v) ==
  /\ task[j].thread = "loading"
  /\ asr_model' = v
  /\ task' = [task EXCEPT ![j].thread = "returning"]
  /\ UNCHANGED <<jobs, job_meta, fs, use_nemo, preload, shutdownDone, now, hist>>

\* `return asr_model`: the thread of job j reads the global again, which
\* another thread may have assigned in between
ThreadReturns(j) ==
  /\ task[j].thread = "returning"
  /\ task' = [task EXCEPT ![j].thread = HoldsModel]
  /\ UNCHANGED <<jobs, job_meta, fs, use_nemo, asr_model, preload, shutdownDone, now, hist>>

\* the thread of job j converts its input, which is still there
ThreadConverts(j) ==
  /\ task[j].thread = "loaded"
  /\ NeedsConversion(task[j].audio_path.val)
  /\ task[j].audio_path.val \in fs[j].files
  /\ fs' = [fs EXCEPT ![j] = convert_opus_to_wav(@, task[j].audio_path.val)]
  /\ task' = [task EXCEPT ![j].thread = "converted"]
  /\ UNCHANGED <<jobs, job_meta, use_nemo, asr_model, preload, shutdownDone, now, hist>>

\* the position from which the thread ends with this outcome
ThreadEndsWith(thread, audio_path, outcome) ==
  CASE outcome = "load_raises"    -> thread = "loading"
    [] outcome = "load_failed"    -> thread = "no_model"
    [] outcome = "convert_failed" -> thread = "loaded" /\ NeedsConversion(audio_path)
    [] OTHER -> ThreadReady(thread, audio_path)

\* what the dispatcher can do with this audio file
DispatchOutcomes(audio_path) ==
  IF use_nemo
    THEN IF NeedsConversion(audio_path) THEN NemoOutcomes
                                        ELSE NemoOutcomes \ {"convert_failed"}
    ELSE {"ok"}

\* _transcribe_audio returns (after the sleep of the mock path, or with what
\* the thread built): the result is stored, the job completed, and the worker
\* either starts the callback POST or ends
DispatchReturns(j) ==
  /\ task[j].pc = "dispatch"
  /\ use_nemo => ThreadEndsWith(task[j].thread, task[j].audio_path.val, "ok")
  /\ LET result == TranscriptionResult(jobs[j].recording_id, j, task[j].language)
         job == [jobs[j] EXCEPT !.progress = 10, !.result = Some(result),
                                !.status = "completed", !.completed_at = Some(now)]
         h == [Recorded(hist[j], job, <<9, 10>>, TRUE) EXCEPT
                 !.dispatch_ok = TRUE, !.events = Append(@, "completed")]
     IN  /\ jobs' = [jobs EXCEPT ![j] = job]
         /\ IF Truthy(task[j].callback_url)
              THEN /\ task' = [task EXCEPT ![j].pc = "callback", ![j].thread = "none"]
                   /\ fs' = fs
                   /\ hist' = [hist EXCEPT ![j] =
                        [h EXCEPT !.callbacks = @ + 1, !.events = Append(@, "callback")]]
              ELSE /\ task' = [task EXCEPT ![j].pc = "done", ![j].thread = "none"]
                   /\ fs' = [fs EXCEPT ![j] =
                        Cleanup(@, task[j].audio_path, task[j].tmp_dir)]
                   /\ hist' = [hist EXCEPT ![j] = [h EXCEPT !.exit = "completed"]]
  /\ now' = now + 1
  /\ UNCHANGED <<job_meta, use_nemo, asr_model, preload, shutdownDone>>

\* str(exc) of what _transcribe_with_nemo raises: its own two RuntimeErrors, or
\* whatever from_pretrained, the converter or model.transcribe raised
NemoError(outcome) ==
  CASE outcome = "load_failed" -> {<<"NeMo model failed to load">>}
    [] outcome = "empty_result" -> {<<"Empty transcription result from NeMo">>}
    [] OTHER -> ExcMessages

\* _transcribe_audio raises what its thread raised (external engine only)
DispatchRaises(j, outcome, msg) ==
  /\ task[j].pc = "dispatch"
  /\ outcome \in DispatchOutcomes(task[j].audio_path.val) \ {"ok"}
  /\ msg \in NemoError(outcome)
  /\ ThreadEndsWith(task[j].thread, task[j].audio_path.val, outcome)
  /\ jobs' = [jobs EXCEPT ![j] = FailedJob(@, msg, now)]
  /\ fs' = [fs EXCEPT ![j] = Cleanup(@, task[j].audio_path, task[j].tmp_dir)]
  /\ hist' = [hist EXCEPT ![j] =
       [Recorded(@, jobs'[j], << >>, TRUE) EXCEPT
          !.exit = "failed", !.events = Append(@, "failed"),
          !.raised = Some(<<outcome, msg>>)]]
  /\ now' = now + 1
  /\ task' = [task EXCEPT ![j].pc = "done", ![j].thread = "none"]
  /\ UNCHANGED <<job_meta, use_nemo, asr_model, preload, shutdownDone>>

\* a _send_callback that lets a failed POST reach the except block of the worker
CallbackReturns_Escalates(j, outcome) ==
  /\ task[j].pc = "callback"
  /\ task' = [task EXCEPT ![j].pc = "done"]
  /\ IF outcome = "ok"
       THEN /\ fs' = [fs EXCEPT ![j] = Cleanup(@, task[j].audio_path, task[j].tmp_dir)]
            /\ hist' = [hist EXCEPT ![j].exit = "completed",
                                    ![j].callback_outcome = Some(outcome)]
            /\ UNCHANGED <<jobs, now>>
       ELSE WorkerFails(j, jobs[j], <<outcome>>, << >>,
                        [hist[j] EXCEPT !.callback_outcome = Some(outcome)])
  /\ UNCHANGED <<job_meta, use_nemo, asr_model, preload, shutdownDone>>

\* _send_callback returns, whatever the POST did: every exception is logged and
\* swallowed; then the finally block of the worker
CallbackReturns(j, outcome) ==
  /\ task[j].pc = "callback"
  /\ task' = [task EXCEPT ![j].pc = "done"]
  /\ fs' = [fs EXCEPT ![j] = Cleanup(@, task[j].audio_path, task[j].tmp_dir)]
  /\ hist' = [hist EXCEPT ![j].exit = "completed", ![j].callback_outcome = Some(outcome)]
  /\ UNCHANGED <<jobs, job_meta, use_nemo, asr_model, preload, shutdownDone, now>>

\* after shutdown the event loop cancels the tasks still suspended:
\* CancelledError is no Exception, so only the finally block runs
Cancelled(j) ==
  /\ shutdownDone
  /\ task[j].pc \in {"download", "chunks", "dispatch", "callback"}
  /\ task' = [task EXCEPT ![j].pc = "done"]
  /\ fs' = [fs EXCEPT ![j] = Cleanup(@, task[j].audio_path, task[j].tmp_dir)]
  /\ hist' = [hist EXCEPT ![j].exit = "cancelled"]
  /\ UNCHANGED <<jobs, job_meta, use_nemo, asr_model, preload, shutdownDone, now>>

(***************************************************************************)
(* The startup handler and the thread it leaves behind.                    *)
(***************************************************************************)
\* startup(): in nemo mode _load_nemo_model is handed to an executor thread
\* that nobody waits for
startup ==
  /\ preload = "unstarted"
  /\ preload' = IF use_nemo THEN "start" ELSE "none"
  /\ UNCHANGED <<jobs, job_meta, task, fs, use_nemo, asr_model, shutdownDone, now, hist>>

\* the preloading thread starts and tests the global; what it returns in the
\* end is read by nobody
PreloadStarts ==
  /\ preload = "start"
  /\ preload' = IF TestModel = "loading" THEN "loading" ELSE "none"
  /\ UNCHANGED <<jobs, job_meta, task, fs, use_nemo, asr_model, shutdownDone, now, hist>>

\* from_pretrained returns to the preloading thread, which assigns the global
PreloadLoads(v) ==
  /\ preload = "loading"
  /\ asr_model' = v
  /\ preload' = "none"
  /\ UNCHANGED <<jobs, job_meta, task, fs, use_nemo, shutdownDone, now, hist>>

\* from_pretrained raises in the preloading thread: nobody reads its future
PreloadRaises ==
  /\ preload = "loading"
  /\ preload' = "none"
  /\ UNCHANGED <<jobs, job_meta, task, fs, use_nemo, asr_model, shutdownDone, now, hist>>

(***************************************************************************)
(* The shutdown handler.                                                   *)
(***************************************************************************)
\* a handler that looks at the jobs in processing only
ActiveJobs_OnlyProcessing == {j \in DOMAIN jobs : jobs[j].status = "processing"}

\* the jobs the handler finds pending or processing
ActiveJobs == {j \in DOMAIN jobs : jobs[j].status \in {"pending", "processing"}}

\* the loop visits the table in insertion order; each visit of an active job
\* reads the clock once
shutdown ==
  /\ Started
  /\ ~shutdownDone
  /\ shutdownDone' = TRUE
  /\ LET at(j) == now + Cardinality({k \in ActiveJobs : k < j})
     IN  /\ jobs' = [j \in DOMAIN jobs |->
              IF j \in ActiveJobs
                THEN [jobs[j] EXCEPT !.status = "failed", !.error = Some(ShutdownError),
                                     !.completed_at = Some(at(j))]
                ELSE jobs[j]]
         /\ hist' = [j \in JobIds |->
              IF j \in ActiveJobs
                THEN [Recorded(hist[j], jobs'[j], << >>, TRUE) EXCEPT
                        !.shutdown_hit = (jobs[j].status = "processing")]
                ELSE hist[j]]
  /\ now' = now + Cardinality(ActiveJobs)
  /\ UNCHANGED <<job_meta, task, fs, use_nemo, asr_model, preload>>

\* the bodies of POST /jobs: every combination of the inputs
JobCreateRequests ==
  { [recording_id |-> r, audio_url |-> u, callback_url |-> c, language |-> l] :
      r \in RecordingIds, u \in AudioUrls, c \in CallbackUrls, l \in Languages }

\* a step of the server when its callers send these bodies to POST /jobs
Serve(requests) ==
  /\ UNCHANGED <<sync, engine_input, transcription, engine_error>>
  /\ \/ \E q \in requests :
           create_job(q.recording_id, q.audio_url, q.callback_url, q.language)
     \/ /\ response' = NoResponse
        /\ \/ \E j \in DOMAIN jobs : ProcessJobStart(j)
           \/ \E j \in DOMAIN jobs, msg \in ExcMessages : ProcessJobMkdtempFails(j, msg)
           \/ \E j \in DOMAIN jobs, status \in HttpStatuses : DownloadResponse(j, status)
           \/ \E j \in DOMAIN jobs :
                 \E msg \in DownloadExcMessages(task[j].pc, job_meta[j].audio_url) :
                    DownloadRaises(j, msg)
           \/ \E j \in DOMAIN jobs : DownloadDone(j)
           \/ \E j \in DOMAIN jobs : ThreadStarts(j)
           \/ \E j \in DOMAIN jobs, v \in LoadResults : ThreadLoads(j, v)
           \/ \E j \in DOMAIN jobs : ThreadReturns(j)
           \/ \E j \in DOMAIN jobs : ThreadConverts(j)
           \/ \E j \in DOMAIN jobs : DispatchReturns(j)
           \/ \E j \in DOMAIN jobs, o \in NemoOutcomes : \E msg \in NemoError(o) :
                 DispatchRaises(j, o, msg)
           \/ \E j \in DOMAIN jobs, o \in CallbackOutcomes : CallbackReturns(j, o)
           \/ \E j \in DOMAIN jobs : Cancelled(j)
           \/ startup
           \/ PreloadStarts
           \/ \E v \in LoadResults : PreloadLoads(v)
           \/ PreloadRaises
           \/ shutdown

Next == Serve(JobCreateRequests)

Spec == Init /\ [][Next]_vars

\* a step of the worker of job j that the event loop and its collaborators
\* (HTTP client, executor thread, engine, callback receiver) take when the
\* task is left to run
WorkerStep(j) ==
  /\ j \in DOMAIN jobs
  /\ response' = NoResponse
  /\ UNCHANGED <<sync, engine_input, transcription, engine_error>>
  /\ \/ ProcessJobStart(j)
     \/ \E msg \in ExcMessages : ProcessJobMkdtempFails(j, msg)
     \/ \E status \in HttpStatuses : DownloadResponse(j, status)
     \/ \E msg \in DownloadExcMessages(task[j].pc, job_meta[j].audio_url) :
           DownloadRaises(j, msg)
     \/ DownloadDone(j)
     \/ ThreadStarts(j)
     \/ \E v \in LoadResults : ThreadLoads(j, v)
     \/ ThreadReturns(j)
     \/ ThreadConverts(j)
     \/ DispatchReturns(j)
     \/ \E o \in NemoOutcomes : \E msg \in NemoError(o) : DispatchRaises(j, o, msg)
     \/ \E o \in CallbackOutcomes : CallbackReturns(j, o)
     \/ Cancelled(j)

\* the server with every task created scheduled until it ends: each await of
\* a worker returns, raises, or is cancelled by the event loop after shutdown
SpecLive == Init /\ [][Next]_vars /\ \A j \in JobIds : WF_vars(WorkerStep(j))

\* the reads do not look at the audio URL: the requests of one recording
ApiRequests == { q \in JobCreateRequests : q.audio_url.suffix # << >> }

\* the job lifecycle together with the read-only endpoints
NextApi ==
  \/ Serve(ApiRequests)
  \/ \E id \in JobIds : GetJobRequest(id)
  \/ HealthRequest

SpecApi == Init /\ [][NextApi]_vars

\* requests that differ in audio URL, callback URL and language
MetaRequests ==
  { [recording_id |-> r, audio_url |-> u, callback_url |-> c, language |-> l] :
      r \in RecordingIds, u \in AudioUrls, c \in {None, Some(<<"http://app:3000/cb">>)},
      l \in RequestLanguages }

\* the job lifecycle with requests in two languages
NextMeta == Serve(MetaRequests)

SpecMeta == Init /\ [][NextMeta]_vars

(***************************************************************************)
(* POST /transcribe: one action per run between two suspension points.     *)
(***************************************************************************)
AllowedExtensions ==
  { <<".", "w", "a", "v">>, <<".", "o", "p", "u", "s">>, <<".", "o", "g", "g">>,
    <<".", "w", "e", "b", "m">>, <<".", "m", "p", "3">>, <<".", "f", "l", "a", "c">> }

\* the variables the synchronous endpoint does not touch (the thread of its
\* dispatch loads the engine model into asr_model)
lifecycleVars ==
  <<jobs, job_meta, task, fs, use_nemo, shutdownDone, now, hist, response,
    engine_input, transcription, engine_error>>

\* the except and finally blocks of transcribe, for str(exc) = msg
UploadFails(req, dir, msg) ==
  [req EXCEPT !.pc = "done", !.status_code = 500,
              !.detail = <<"Transcription failed: ">> \o msg,
              !.dir = Cleanup(dir, req.audio_path, req.tmp_dir)]

\* the two validations at the head of transcribe
Rejects(filename) ==
  \/ filename = None
  \/ Lower(filename.val.suffix) \notin AllowedExtensions

\* the requests are numbered in the order they arrive
NextUpload(r) ==
  /\ sync[r].pc = "none"
  /\ \A earlier \in UploadIds : earlier < r => sync[earlier].pc # "none"

\* the request arrives: validation, mkdtemp, up to the await of file.read()
transcribe(r, filename, language, recording_id) ==
  /\ Started /\ ~shutdownDone
  /\ NextUpload(r)
  /\ sync' = [sync EXCEPT ![r] =
       IF filename = None
         THEN [@ EXCEPT !.pc = "done", !.status_code = 400,
                        !.detail = <<"No filename provided">>]
       ELSE IF Rejects(filename)
         THEN [@ EXCEPT !.pc = "done", !.filename = filename, !.status_code = 400,
                        !.detail = <<"Unsupported audio format: ">>
                                     \o Lower(filename.val.suffix)
                                     \o <<". Supported: ",
                                           ".flac, .mp3, .ogg, .opus, .wav, .webm">>]
       ELSE [@ EXCEPT !.pc = "read", !.filename = filename,
                      !.language = language, !.recording_id = recording_id,
                      !.tmp_dir = Some("transcription_"),
                      !.audio_path = Some(<<"upload">> \o Lower(filename.val.suffix)),
                      !.dir = [exists |-> TRUE, files |-> {}],
                      !.created = TRUE]]
  /\ UNCHANGED <<lifecycleVars, asr_model, preload>>

\* the request passes the validation and tempfile.mkdtemp raises, ahead of
\* the try: the framework answers 500 and nothing has been created
TranscribeMkdtempFails(r, filename) ==
  /\ Started /\ ~shutdownDone
  /\ NextUpload(r)
  /\ ~Rejects(filename)
  /\ sync' = [sync EXCEPT ![r] =
       [@ EXCEPT !.pc = "done", !.filename = filename, !.status_code = 500,
                 !.detail = <<"Internal Server Error">>]]
  /\ UNCHANGED <<lifecycleVars, asr_model, preload>>

\* file.read() returns, the content is written and _transcribe_audio called,
\* which in nemo mode hands the file to an executor thread
UploadRead(r) ==
  /\ sync[r].pc = "read"
  /\ sync' = [sync EXCEPT ![r] =
       [@ EXCEPT !.pc = "dispatch", !.dispatched = TRUE,
                 !.thread = IF use_nemo THEN "start" ELSE "none",
                 !.dir = [@ EXCEPT !.files = @ \cup {sync[r].audio_path.val}]]]
  /\ UNCHANGED <<lifecycleVars, asr_model, preload>>

\* file.read() raises
UploadReadRaises(r, msg) ==
  /\ sync[r].pc = "read"
  /\ sync' = [sync EXCEPT ![r] = UploadFails(@, @.dir, msg)]
  /\ UNCHANGED <<lifecycleVars, asr_model, preload>>

\* the thread of the request starts and tests the global
UploadThreadStarts(r) ==
  /\ sync[r].thread = "start"
  /\ sync' = [sync EXCEPT ![r].thread = TestModel]
  /\ UNCHANGED <<lifecycleVars, asr_model, preload>>

\* from_pretrained returns to the thread of the request, which assigns the global
UploadThreadLoads(r, v) ==
  /\ sync[r].thread = "loading"
  /\ asr_model' = v
  /\ sync' = [sync EXCEPT ![r].thread = "returning"]
  /\ UNCHANGED <<lifecycleVars, preload>>

\* `return asr_model`: the thread of the request reads the global again
UploadThreadReturns(r) ==
  /\ sync[r].thread = "returning"
  /\ sync' = [sync EXCEPT ![r].thread = HoldsModel]
  /\ UNCHANGED <<lifecycleVars, asr_model, preload>>

\* the thread of the request converts the upload
UploadThreadConverts(r) ==
  /\ sync[r].thread = "loaded"
  /\ NeedsConversion(sync[r].audio_path.val)
  /\ sync[r].audio_path.val \in sync[r].dir.files
  /\ sync' = [sync EXCEPT ![r] =
       [@ EXCEPT !.thread = "converted",
                 !.dir = convert_opus_to_wav(@, sync[r].audio_path.val)]]
  /\ UNCHANGED <<lifecycleVars, asr_model, preload>>

\* _transcribe_audio returns: the result is the answer, then the finally block
TranscribeReturns(r) ==
  /\ sync[r].pc = "dispatch"
  /\ use_nemo => ThreadEndsWith(sync[r].thread, sync[r].audio_path.val, "ok")
  /\ sync' = [sync EXCEPT ![r] =
       [@ EXCEPT !.pc = "done", !.status_code = 200, !.thread = "none",
                 !.result = Some(TranscriptionResult(sync[r].recording_id, None,
                                                     sync[r].language)),
                 !.dir = Cleanup(@, sync[r].audio_path, sync[r].tmp_dir)]]
  /\ UNCHANGED <<lifecycleVars, asr_model, preload>>

\* _transcribe_audio raises what its thread raised (external engine only)
TranscribeRaises(r, outcome, msg) ==
  /\ sync[r].pc = "dispatch"
  /\ outcome \in DispatchOutcomes(sync[r].audio_path.val) \ {"ok"}
  /\ msg \in NemoError(outcome)
  /\ ThreadEndsWith(sync[r].thread, sync[r].audio_path.val, outcome)
  /\ sync' = [sync EXCEPT ![r] =
       [UploadFails(@, @.dir, msg) EXCEPT !.thread = "none"]]
  /\ UNCHANGED <<lifecycleVars, asr_model, preload>>

\* after shutdown the event loop cancels the handlers still suspended:
\* CancelledError is no Exception, so only the finally block runs and the
\* request gets no answer
UploadCancelled(r) ==
  /\ shutdownDone
  /\ sync[r].pc \in {"read", "dispatch"}
  /\ sync' = [sync EXCEPT ![r] =
       [@ EXCEPT !.pc = "done", !.dir = Cleanup(@, sync[r].audio_path, sync[r].tmp_dir)]]
  /\ UNCHANGED <<lifecycleVars, asr_model, preload>>

\* the startup handler and its thread, seen from the synchronous endpoint
PreloadStep ==
  /\ \/ startup
     \/ PreloadStarts
     \/ \E v \in LoadResults : PreloadLoads(v)
     \/ PreloadRaises
  /\ UNCHANGED <<response, sync, engine_input, transcription, engine_error>>

\* the shutdown handler, seen from the synchronous endpoint
ShutdownStep ==
  /\ shutdown
  /\ UNCHANGED <<response, sync, engine_input, transcription, engine_error>>

\* the requests to POST /transcribe: every combination of the inputs
UploadRequests ==
  { [filename |-> f, language |-> l, recording_id |-> id] :
      f \in UploadNames, l \in RequestLanguages,
      id \in {None} \cup {Some(i) : i \in RecordingIds} }

\* a step of the synchronous endpoint when its callers send these requests
Upload(uploads) ==
  \/ \E r \in UploadIds, q \in uploads :
        transcribe(r, q.filename, q.language, q.recording_id)
  \/ \E r \in UploadIds, q \in uploads : TranscribeMkdtempFails(r, q.filename)
  \/ \E r \in UploadIds : UploadRead(r)
  \/ \E r \in UploadIds, msg \in ExcMessages : UploadReadRaises(r, msg)
  \/ \E r \in UploadIds : UploadThreadStarts(r)
  \/ \E r \in UploadIds, v \in LoadResults : UploadThreadLoads(r, v)
  \/ \E r \in UploadIds : UploadThreadReturns(r)
  \/ \E r \in UploadIds : UploadThreadConverts(r)
  \/ \E r \in UploadIds : TranscribeReturns(r)
  \/ \E r \in UploadIds, o \in NemoOutcomes : \E msg \in NemoError(o) : TranscribeRaises(r, o, msg)
  \/ \E r \in UploadIds : UploadCancelled(r)

NextSync ==
  \/ Upload(UploadRequests)
  \/ PreloadStep
  \/ ShutdownStep

SpecSync == Init /\ [][NextSync]_vars

\* requests to both callers of _transcribe_audio, in two languages
StampRequests ==
  { [recording_id |-> r, audio_url |-> u, callback_url |-> None, language |-> l] :
      r \in RecordingIds, u \in { v \in AudioUrls : v.suffix # << >> }, l \in RequestLanguages }
StampUploads ==
  { [filename |-> Some([stem |-> "clip", suffix |-> <<".", "o", "p", "u", "s">>]),
     language |-> l, recording_id |-> Some(id)] :
      l \in RequestLanguages, id \in RecordingIds }
\* number of requests of a run, over both endpoints
MaxCallers == 2

\* the job pipeline and the synchronous endpoint in one process
NextStamp ==
  /\ \/ Serve(StampRequests)
     \/ Upload(StampUploads)
  /\ Cardinality(DOMAIN jobs') + Cardinality({r \in UploadIds : sync'[r].pc # "none"})
       <= MaxCallers

SpecStamp == Init /\ [][NextStamp]_vars

(***************************************************************************)
(* The two transcription paths as functions of what they are given.        *)
(* A str is the sequence of its pieces; the words of a hypothesis are      *)
(* written character by character.                                         *)
(***************************************************************************)
SegmentWordLimit == 15
sentence_end_chars == {".", "?", "!"}

\* sep.join(strs)
RECURSIVE Join(_, _)
Join(strs, sep) ==
  IF strs = << >> THEN << >>
  ELSE IF Len(strs) = 1 THEN strs[1]
  ELSE strs[1] \o sep \o Join(Tail(strs), sep)

\* s.endswith(c) for a one-character c
EndsWith(s, c) == Len(s) > 0 /\ s[Len(s)] = c

\* any(word_str.endswith(c) for c in sentence_end_chars)
IsSentenceEnd(word_str) == \E c \in sentence_end_chars : EndsWith(word_str, c)

WordTimestamp(w_info) == [word |-> w_info.word, start |-> w_info.start, end |-> w_info.end]

Segment(start, end, text, words) ==
  [start |-> start, end |-> end, text |-> text, words |-> words]

\* the segment made of the words collected since the last closure: it starts
\* with its first word and ends with its last
ClosedSegment(current) ==
  Segment(current[1].start, current[Len(current)].end,
          Join([i \in 1..Len(current) |-> current[i].word], <<" ">>), current)

\* a loop that closes a segment only once it holds more than the limit
RECURSIVE SegmentWords_CutsLate(_, _, _, _)
SegmentWords_CutsLate(words, i, segments, current) ==
  IF i > Len(words)
    THEN IF current # << >> THEN Append(segments, ClosedSegment(current)) ELSE segments
    ELSE LET cur == Append(current, WordTimestamp(words[i]))
         IN  IF IsSentenceEnd(words[i].word) \/ Len(cur) > SegmentWordLimit
               THEN SegmentWords_CutsLate(words, i + 1, Append(segments, ClosedSegment(cur)), << >>)
               ELSE SegmentWords_CutsLate(words, i + 1, segments, cur)

\* the loop over words_data.words from word i on, and the trailing segment
RECURSIVE SegmentWords(_, _, _, _)
SegmentWords(words, i, segments, current) ==
  IF i > Len(words)
    THEN IF current # << >> THEN Append(segments, ClosedSegment(current)) ELSE segments
    ELSE LET cur == Append(current, WordTimestamp(words[i]))
         IN  IF IsSentenceEnd(words[i].word) \/ Len(cur) >= SegmentWordLimit
               THEN SegmentWords(words, i + 1, Append(segments, ClosedSegment(cur)), << >>)
               ELSE SegmentWords(words, i + 1, segments, cur)

\* _transcribe_with_nemo from the hypothesis on: text is None when the
\* hypothesis has no text attribute, words is None when it has no timestep
\* or no words
transcribe_with_nemo(hypothesis) ==
  LET transcript_text == IF hypothesis.text = None THEN << >> ELSE hypothesis.text.val
      fromWords == IF Truthy(hypothesis.words)
                     THEN SegmentWords(hypothesis.words.val, 1, << >>, << >>)
                     ELSE << >>
      segments == IF fromWords = << >> /\ transcript_text # << >>
                    THEN << Segment(0, 0, transcript_text, << >>) >>
                    ELSE fromWords
  IN  [ transcript |-> transcript_text,
        duration_seconds |-> IF segments # << >> THEN segments[Len(segments)].end ELSE 0,
        language |-> "en",
        segments |-> segments ]

\* a line of a conversation from its words
Line(ws) == Join([i \in 1..Len(ws) |-> <<ws[i]>>], <<" ">>)

\* line.split() of such a line
Split(line) ==
  LET ws == SelectSeq(line, LAMBDA piece : piece # " ")
  IN  [i \in 1..Len(ws) |-> <<ws[i]>>]

\* the conversations of the synthetic path; a line is written as its words,
\* Line puts the single spaces back
MOCK_CONVERSATIONS ==
  <<
    <<
      Line(<<"Thank", "you", "for", "calling", "Acme", "Support,", "my", "name", "is", "Sarah.", "How", "can", "I", "help", "you", "today?">>),
      Line(<<"Hi", "Sarah,", "I'm", "having", "trouble", "with", "my", "account", "login.", "It", "keeps", "saying", "invalid", "password.">>),
      Line(<<"I'm", "sorry", "to", "hear", "that.", "Let", "me", "pull", "up", "your", "account.", "Can", "I", "have", "your", "account", "number", "or", "email", "address?">>),
      Line(<<"Sure,", "it's", "john", "dot", "smith", "at", "email", "dot", "com.">>),
      Line(<<"Thank", "you,", "I", "can", "see", "your", "account", "here.", "It", "looks", "like", "your", "account", "was", "locked", "after", "three", "failed", "attempts.">>),
      Line(<<"Oh,", "that", "makes", "sense.", "I", "was", "trying", "different", "passwords.">>),
      Line(<<"No", "worries,", "it", "happens", "all", "the", "time.", "I've", "unlocked", "your", "account", "and", "sent", "a", "password", "reset", "link", "to", "your", "email.">>),
      Line(<<"Great,", "I", "just", "got", "it.", "Let", "me", "try", "logging", "in", "now.">>),
      Line(<<"Take", "your", "time.">>),
      Line(<<"It", "worked!", "Thank", "you", "so", "much", "for", "your", "help,", "Sarah.">>),
      Line(<<"You're", "welcome!", "Is", "there", "anything", "else", "I", "can", "help", "you", "with", "today?">>),
      Line(<<"No,", "that's", "all.", "Have", "a", "great", "day!">>),
      Line(<<"You", "too!", "Thank", "you", "for", "calling", "Acme", "Support.", "Goodbye.">>)
    >>,
    <<
      Line(<<"Good", "afternoon,", "this", "is", "Mike", "with", "billing", "support.", "How", "may", "I", "assist", "you?">>),
      Line(<<"Hi,", "I", "received", "a", "charge", "on", "my", "statement", "that", "I", "don't", "recognize.", "It's", "for", "forty-nine", "ninety-nine.">>),
      Line(<<"I'd", "be", "happy", "to", "look", "into", "that", "for", "you.", "May", "I", "have", "your", "customer", "ID?">>),
      Line(<<"It's", "C", "H", "seven", "four", "two", "one.">>),
      Line(<<"Thank", "you.", "I", "can", "see", "the", "charge", "you're", "referring", "to.", "That's", "for", "the", "premium", "plan", "upgrade", "that", "was", "processed", "on", "January", "fifteenth.">>),
      Line(<<"I", "didn't", "authorize", "any", "upgrade.", "I've", "been", "on", "the", "basic", "plan.">>),
      Line(<<"I", "understand", "your", "concern.", "Let", "me", "check", "the", "activity", "log", "on", "your", "account.">>),
      Line(<<"Please", "do.">>),
      Line(<<"It", "appears", "the", "upgrade", "was", "triggered", "through", "the", "mobile", "app.", "Is", "it", "possible", "someone", "with", "access", "to", "your", "account", "made", "this", "change?">>),
      Line(<<"Oh", "wait,", "my", "husband", "might", "have", "done", "that.", "Let", "me", "check", "with", "him.">>),
      Line(<<"Of", "course,", "take", "your", "time.">>),
      Line(<<"Yes,", "he", "confirmed", "he", "upgraded", "it.", "I'm", "sorry", "for", "the", "confusion.">>),
      Line(<<"Not", "a", "problem", "at", "all!", "Would", "you", "like", "to", "keep", "the", "premium", "plan", "or", "revert", "to", "basic?">>),
      Line(<<"We'll", "keep", "it", "actually.", "Thank", "you", "for", "your", "patience,", "Mike.">>),
      Line(<<"Absolutely!", "Glad", "we", "could", "sort", "that", "out.", "Have", "a", "wonderful", "day!">>)
    >>,
    <<
      Line(<<"Hello,", "you've", "reached", "technical", "support.", "This", "is", "Jennifer.", "What", "seems", "to", "be", "the", "issue?">>),
      Line(<<"My", "internet", "has", "been", "really", "slow", "for", "the", "past", "two", "days.", "I'm", "barely", "getting", "five", "megabits.">>),
      Line(<<"I'm", "sorry", "about", "that.", "Let", "me", "run", "some", "diagnostics", "on", "your", "line.", "Can", "I", "get", "your", "service", "address?">>),
      Line(<<"It's", "four", "twenty-one", "Oak", "Street,", "apartment", "B.">>),
      Line(<<"Thank", "you.", "I'm", "seeing", "some", "signal", "issues", "on", "your", "line.", "There", "was", "maintenance", "in", "your", "area", "yesterday", "that", "may", "have", "affected", "your", "connection.">>),
      Line(<<"So", "is", "it", "something", "on", "your", "end?">>),
      Line(<<"It", "appears", "so.", "I'm", "going", "to", "reset", "your", "connection", "from", "here", "and", "that", "should", "resolve", "the", "speed", "issue.">>),
      Line(<<"Okay,", "how", "long", "will", "that", "take?">>),
      Line(<<"Just", "about", "two", "minutes.", "Your", "modem", "will", "restart", "automatically.", "You'll", "see", "the", "lights", "flash", "and", "then", "come", "back", "solid.">>),
      Line(<<"Alright,", "I", "see", "it", "restarting", "now.">>),
      Line(<<"Perfect.", "Once", "all", "the", "lights", "are", "solid", "green,", "try", "running", "a", "speed", "test.">>),
      Line(<<"It's", "back", "up", "and", "I'm", "getting", "ninety-five", "megabits", "now.", "That's", "much", "better!">>),
      Line(<<"Excellent!", "That's", "right", "where", "it", "should", "be.", "I'll", "make", "a", "note", "on", "your", "account", "about", "this", "issue.">>),
      Line(<<"Thank", "you", "so", "much,", "Jennifer.", "You've", "been", "very", "helpful.">>),
      Line(<<"Happy", "to", "help!", "If", "you", "experience", "any", "more", "issues,", "don't", "hesitate", "to", "call", "back.", "Have", "a", "great", "evening!">>)
    >>,
    <<
      Line(<<"Thank", "you", "for", "calling", "reservations,", "this", "is", "David", "speaking.">>),
      Line(<<"Hi,", "I'd", "like", "to", "make", "a", "reservation", "for", "this", "Saturday.">>),
      Line(<<"Of", "course!", "How", "many", "guests", "will", "be", "dining", "with", "us?">>),
      Line(<<"There", "will", "be", "four", "of", "us.">>),
      Line(<<"And", "what", "time", "would", "you", "prefer?">>),
      Line(<<"Seven", "thirty", "if", "possible.">>),
      Line(<<"Let", "me", "check", "availability.", "We", "do", "have", "a", "table", "for", "four", "at", "seven", "thirty.", "Would", "you", "like", "indoor", "or", "patio", "seating?">>),
      Line(<<"Indoor,", "please.", "Do", "you", "have", "anything", "near", "the", "window?">>),
      Line(<<"I", "can", "put", "you", "at", "a", "window", "table.", "It", "has", "a", "lovely", "view", "of", "the", "garden.">>),
      Line(<<"That", "sounds", "perfect.", "The", "reservation", "will", "be", "under", "Thompson.">>),
      Line(<<"Wonderful,", "Mr.", "Thompson.", "Table", "for", "four,", "Saturday", "at", "seven", "thirty,", "window", "seating.", "Any", "dietary", "restrictions", "or", "special", "occasions", "I", "should", "note?">>),
      Line(<<"Actually,", "it's", "my", "wife's", "birthday.", "Could", "you", "arrange", "a", "small", "cake?">>),
      Line(<<"Absolutely!", "We'd", "be", "happy", "to.", "We", "have", "chocolate,", "vanilla,", "or", "red", "velvet.", "Any", "preference?">>),
      Line(<<"Chocolate", "would", "be", "great.">>),
      Line(<<"Perfect.", "I've", "noted", "everything.", "We'll", "have", "a", "complimentary", "birthday", "dessert", "ready.", "See", "you", "Saturday,", "Mr.", "Thompson!">>),
      Line(<<"Thank", "you,", "David.", "We're", "looking", "forward", "to", "it!">>)
    >>,
    <<
      Line(<<"Claims", "department,", "this", "is", "Rachel.", "How", "can", "I", "help?">>),
      Line(<<"I", "need", "to", "file", "a", "claim.", "I", "had", "a", "fender", "bender", "this", "morning.">>),
      Line(<<"I'm", "sorry", "to", "hear", "that.", "Are", "you", "okay?", "Was", "anyone", "injured?">>),
      Line(<<"Everyone", "is", "fine,", "thankfully.", "Just", "some", "damage", "to", "the", "bumper.">>),
      Line(<<"Good", "to", "hear", "everyone's", "safe.", "I'll", "help", "you", "get", "this", "claim", "started.", "Can", "I", "have", "your", "policy", "number?">>),
      Line(<<"It's", "P", "O", "L", "dash", "eight", "eight", "three", "two", "one", "seven.">>),
      Line(<<"Thank", "you.", "I", "have", "your", "policy", "pulled", "up.", "Can", "you", "walk", "me", "through", "what", "happened?">>),
      Line(<<"I", "was", "stopped", "at", "a", "red", "light", "on", "Main", "Street", "and", "the", "car", "behind", "me", "didn't", "stop", "in", "time.">>),
      Line(<<"Understood.", "Did", "you", "get", "the", "other", "driver's", "information?">>),
      Line(<<"Yes,", "I", "have", "their", "insurance", "details", "and", "we", "both", "took", "photos.">>),
      Line(<<"Perfect,", "that's", "exactly", "what", "we", "need.", "I'm", "going", "to", "assign", "you", "a", "claim", "number.", "It's", "C", "L", "M", "dash", "two", "zero", "two", "five", "dash", "zero", "four", "seven.">>),
      Line(<<"Got", "it,", "thank", "you.">>),
      Line(<<"An", "adjuster", "will", "contact", "you", "within", "twenty-four", "hours", "to", "schedule", "an", "inspection.", "In", "the", "meantime,", "you're", "welcome", "to", "get", "a", "repair", "estimate", "from", "any", "of", "our", "approved", "shops.">>),
      Line(<<"Is", "Smith", "Auto", "Body", "on", "the", "approved", "list?">>),
      Line(<<"Let", "me", "check.", "Yes,", "they", "are!", "They're", "one", "of", "our", "preferred", "partners", "actually.">>),
      Line(<<"Great,", "I'll", "take", "it", "there.", "Thanks", "for", "your", "help,", "Rachel.">>),
      Line(<<"You're", "welcome.", "I'm", "sorry", "about", "the", "accident,", "but", "we'll", "get", "you", "taken", "care", "of.", "Stay", "safe!">>)
    >>
  >>

\* the i-th draw of a kind, the draws being taken in turn from a short list
Draw(draws, i) == draws[((i - 1) % Len(draws)) + 1]

\* the loop over the words of one line from word k on, in milliseconds:
\* each word starts at current_time and lasts its drawn duration, and the
\* next one starts a drawn gap after it
RECURSIVE MockWords(_, _, _, _, _)
MockWords(words_raw, k, current_time, word_timestamps, times) ==
  IF k > Len(words_raw)
    THEN [word_timestamps |-> word_timestamps, current_time |-> current_time]
    ELSE LET word_start == current_time
             word_end == current_time + Draw(times.durations, k)
         IN  MockWords(words_raw, k + 1, word_end + Draw(times.gaps, k),
                       Append(word_timestamps,
                              [word |-> words_raw[k], start |-> word_start, end |-> word_end]),
                       times)

\* the loop over the lines from line i on: a segment starts at current_time
\* and ends at current_time as the loop over its words left it; the next
\* line starts a drawn pause later
RECURSIVE MockSegments(_, _, _, _, _)
MockSegments(lines, i, current_time, segments, times) ==
  IF i > Len(lines) THEN segments
  ELSE LET segment_start == current_time
           spoken == MockWords(Split(lines[i]), 1, current_time, << >>, times)
           segment_end == spoken.current_time
       IN  MockSegments(lines, i + 1, segment_end + Draw(times.pauses, i),
                        Append(segments, Segment(segment_start, segment_end, lines[i],
                                                 spoken.word_timestamps)),
                        times)

\* _generate_mock_transcript for the draws of random.choice, random.randint
\* and random.uniform; the confidences drawn per word are left out
generate_mock_transcript(conversation, num_lines, times) ==
  LET lines == SubSeq(MOCK_CONVERSATIONS[conversation], 1, num_lines)
      segments == MockSegments(lines, 1, 0, << >>, times)
  IN  [ transcript |-> Join([i \in 1..Len(segments) |-> segments[i].text], <<" ">>),
        duration_seconds |-> IF segments # << >> THEN segments[Len(segments)].end ELSE 0,
        language |-> "en",
        segments |-> segments ]

\* the word list of a hypothesis from its word strings, with the times the
\* engine attaches by position
WordInfos(ws) ==
  [i \in 1..Len(ws) |-> [word |-> ws[i], start |-> 10 * (i - 1), end |-> 10 * (i - 1) + 5]]

\* hypotheses of the external engine: every text with every short word list,
\* and every longer list of plain and sentence-ending words with its own text
Texts == {None, Some(<< >>), Some(<<"a">>), Some(<<"a", " ", "b", ".">>)}
WordStrs == {<<"a">>, <<"b", ".">>, <<"c", "?">>, <<"!">>}
ShortWordLists == UNION { [1..n -> WordStrs] : n \in 0..2 }
LongWordLists == UNION { [1..n -> {<<"a">>, <<"b", ".">>}] : n \in 3..MaxWords }
Hypotheses ==
  { [text |-> t, words |-> w] :
      t \in Texts, w \in {None} \cup { Some(WordInfos(ws)) : ws \in ShortWordLists } }
  \cup { [text |-> Some(Join(ws, <<" ">>)), words |-> Some(WordInfos(ws))] : ws \in LongWordLists }

\* the draws of random.uniform in milliseconds, the ends of each range:
\* word durations, gaps between words and pauses between lines
TimeDraws ==
  { [durations |-> d, gaps |-> g, pauses |-> p] :
      d \in [1..2 -> {150, 450}], g \in [1..2 -> {20, 100}], p \in {<<300>>, <<1200>>} }

\* the draws of the synthetic path: a conversation, how many of its lines,
\* and the times
MockDraws ==
  { [conversation |-> c, num_lines |-> n, times |-> t] :
      c \in 1..Len(MOCK_CONVERSATIONS), n \in 4..17, t \in TimeDraws }

\* what _load_nemo_model and model.transcribe can answer: no model, something
\* that is not a list, an empty list, a list whose first element is an empty
\* list (an object with no text and no timestep), or a list holding a
\* hypothesis, directly or in a list of its own
EngineAnswers ==
  { [answer |-> "hypothesis", text |-> h.text, words |-> h.words] : h \in Hypotheses }
  \cup { [answer |-> "nested_hypothesis", text |-> h.text, words |-> h.words] :
           h \in { g \in Hypotheses : g.words = None \/ Len(g.words.val) <= 2 } }
  \cup { [answer |-> a, text |-> None, words |-> None] :
           a \in {"no_model", "not_a_list", "empty_list", "first_empty"} }

\* _transcribe_with_nemo from the loading of the model on, the audio being a .wav
Raised(msg) == [raised |-> TRUE, msg |-> msg]
Returned(result) == [raised |-> FALSE, result |-> result]
transcribe_answer(a) ==
  CASE a.answer = "no_model" -> Raised(<<"NeMo model failed to load">>)
    [] a.answer \in {"not_a_list", "empty_list"} ->
         Raised(<<"Empty transcription result from NeMo">>)
    [] OTHER -> Returned(transcribe_with_nemo(a))

InitEngine ==
  /\ InitServer
  /\ \/ use_nemo /\ engine_input \in { Some(a) : a \in EngineAnswers }
     \/ ~use_nemo /\ engine_input \in
          { Some(d) : d \in { m \in MockDraws : m.num_lines <= Len(MOCK_CONVERSATIONS[m.conversation]) } }

serverVars == <<jobs, job_meta, task, fs, use_nemo, preload, shutdownDone, now, hist, response, sync>>

\* the external path builds its result; its loader has stored what
\* from_pretrained returned
TranscribeWithNemo ==
  /\ use_nemo /\ engine_input # None /\ transcription = None /\ engine_error = None
  /\ LET out == transcribe_answer(engine_input.val)
     IN  /\ transcription' = IF out.raised THEN None ELSE Some(out.result)
         /\ engine_error' = IF out.raised THEN Some(out.msg) ELSE None
  /\ asr_model' = IF engine_input.val.answer = "no_model" THEN None ELSE LoadedModel
  /\ UNCHANGED <<serverVars, engine_input>>

\* the synthetic path builds its result
GenerateMockTranscript ==
  /\ ~use_nemo /\ engine_input # None /\ transcription = None
  /\ transcription' =
       Some(generate_mock_transcript(engine_input.val.conversation, engine_input.val.num_lines,
                                     engine_input.val.times))
  /\ UNCHANGED <<serverVars, asr_model, engine_input, engine_error>>

NextEngine == TranscribeWithNemo \/ GenerateMockTranscript

SpecEngine == InitEngine /\ [][NextEngine]_vars

(***************************************************************************)
(* Properties of the job lifecycle.                                        *)
(***************************************************************************)
\* C1: once a job's status is completed or failed, no step of any worker or of
\* the shutdown handler changes it.
C1_TerminalNeverLeft ==
  [][\A j \in DOMAIN jobs :
       jobs[j].status \in Terminal => jobs'[j].status = jobs[j].status]_vars

\* C2: the result and error a job has when it first becomes completed or failed
\* are what every later get_job returns.
C2_ResultErrorFrozen ==
  \A j \in DOMAIN jobs :
    hist[j].first_terminal # None =>
      /\ get_job(j).result = hist[j].first_terminal.val.result
      /\ get_job(j).error = hist[j].first_terminal.val.error

\* C3: a job that shutdown found in processing stays failed with the error
\* "Server shutting down" and a completed_at, whatever its worker does later.
C3_ShutdownIsFinal ==
  \A j \in DOMAIN jobs :
    hist[j].shutdown_hit =>
      /\ jobs[j].status = "failed"
      /\ jobs[j].error = Some(ShutdownError)
      /\ jobs[j].completed_at # None

\* C4: at every point where a poll can run, result is set only on a completed
\* job, error only on a failed job, completed_at only on a terminal job.
C4_FieldsMatchStatus ==
  \A j \in DOMAIN jobs :
    /\ jobs[j].result # None => jobs[j].status = "completed"
    /\ jobs[j].error # None => jobs[j].status = "failed"
    /\ jobs[j].completed_at # None => jobs[j].status \in Terminal

\* C5: completed_at is written at most once per job, and created_at is never
\* written after creation.
C5_TerminalOnce ==
  /\ [](\A j \in DOMAIN jobs : hist[j].completed_at_writes <= 1)
  /\ [][\A j \in DOMAIN jobs : jobs'[j].created_at = jobs[j].created_at]_vars

\* the values of seq never decrease
NonDecreasing(seq) == \A i \in 1..(Len(seq) - 1) : seq[i] <= seq[i + 1]

\* C6: the progress values written to a job start at 0, never decrease and stay
\* within [0, 1], on every path of the worker and across shutdown.
C6_ProgressMonotone ==
  /\ [](\A j \in DOMAIN jobs :
          /\ hist[j].progress_log[1] = 0
          /\ NonDecreasing(hist[j].progress_log)
          /\ \A i \in 1..Len(hist[j].progress_log) :
               hist[j].progress_log[i] \in 0..ProgressUnit
          /\ jobs[j].progress \in 0..ProgressUnit)
  /\ [][\A j \in DOMAIN jobs : jobs'[j].progress >= jobs[j].progress]_vars

\* a worker that failed at dispatch has written 0, 0.1, 0.2, 0.4 and a worker that
\* completed has written all six values
C6_Witness ==
  /\ \E j \in DOMAIN jobs :
       /\ task[j].pc = "done"
       /\ hist[j].progress_log = <<0, 1, 2, 4, 9, 10>>
       /\ jobs[j].progress = ProgressUnit
  /\ \E j \in DOMAIN jobs :
       /\ task[j].pc = "done"
       /\ jobs[j].status = "failed"
       /\ hist[j].progress_log = <<0, 1, 2, 4>>
       /\ jobs[j].progress = 4

\* C7: when a worker has finished, on any exit path, its temporary directory
\* and every file in it are gone.
C7_CleanupOnAllPaths ==
  \A j \in DOMAIN jobs : task[j].pc = "done" => fs[j] = NoDir

\* C8: a callback POST is started only for a completed job with a stored result
\* and a callback URL, at most once per job, and while it is in flight and when
\* it returns the job record is what it was before.
C8_CallbackBestEffort ==
  /\ [](\A j \in DOMAIN jobs :
          /\ hist[j].callbacks <= 1
          /\ hist[j].callbacks > 0 =>
               /\ jobs[j].status = "completed"
               /\ jobs[j].result # None
               /\ job_meta[j].callback_url # None)
  /\ [][\A j \in DOMAIN jobs : task[j].pc = "callback" => jobs'[j] = jobs[j]]_vars

\* one callback POST has timed out and another has returned a non-success status,
\* and both workers have ended
C8_Witness ==
  \E j, k \in DOMAIN jobs :
    /\ task[j].pc = "done" /\ task[k].pc = "done"
    /\ hist[j].callbacks = 1 /\ hist[k].callbacks = 1
    /\ hist[j].callback_outcome = Some("timeout")
    /\ hist[k].callback_outcome = Some("non_success")
    /\ jobs[j].status = "completed" /\ jobs[k].status = "completed"

\* C9: after the worker of a job whose download answered 200 and whose dispatch
\* succeeded has finished, get_job returns completed, progress 1.0, a result and
\* no error.
C9_SuccessfulJobPoll ==
  \A j \in DOMAIN jobs :
    (task[j].pc = "done" /\ hist[j].download_status = Some(200) /\ hist[j].dispatch_ok) =>
      /\ get_job(j).status = "completed"
      /\ get_job(j).progress = ProgressUnit
      /\ get_job(j).result # None
      /\ get_job(j).error = None

\* C10: after the worker of a job whose download answered with a status other
\* than 200 has finished, get_job returns failed, no result, a completed_at and a
\* non-empty error containing the status code; and every worker that ended in a
\* failure left its job failed with a stored description and a completed_at.
C10_FailureIsRecorded ==
  \A j \in DOMAIN jobs :
    /\ (task[j].pc = "done" /\ hist[j].download_status # None
          /\ hist[j].download_status # Some(200)) =>
         /\ get_job(j).status = "failed"
         /\ get_job(j).result = None
         /\ get_job(j).completed_at # None
         /\ get_job(j).error # None
         /\ get_job(j).error.val # << >>
         /\ Contains(get_job(j).error.val, IntToStr(hist[j].download_status.val))
    /\ hist[j].exit = "failed" =>
         /\ get_job(j).status = "failed"
         /\ get_job(j).error # None
         /\ get_job(j).completed_at # None
         /\ get_job(j).result = None

\* a download answered 404 and one worker failed at dispatch
C10_Witness ==
  /\ \E j \in DOMAIN jobs :
       /\ task[j].pc = "done"
       /\ hist[j].download_status = Some(404)
       /\ jobs[j].error = Some(<<"Failed to download audio: HTTP ", "4", "0", "4">>)
  /\ \E j \in DOMAIN jobs :
       /\ hist[j].exit = "failed"
       /\ hist[j].download_status = Some(200)
       /\ jobs[j].progress = 4

(***************************************************************************)
(* Properties of the endpoints.                                            *)
(***************************************************************************)
\* C11: create_job returns a record with status pending, progress 0, a creation
\* timestamp, no completed_at, error or result and an identifier no job of the
\* table had; the record is the one stored, its worker task is launched but has
\* not run, and the records of the other jobs are untouched.
C11_CreateReturnsPending ==
  [][response'.endpoint = "create_job" =>
       LET job == response'.body
       IN  /\ job.status = "pending"
           /\ job.progress = 0
           /\ job.created_at = now
           /\ job.completed_at = None /\ job.error = None /\ job.result = None
           /\ job.job_id \notin DOMAIN jobs
           /\ \A k \in DOMAIN jobs : jobs[k].job_id # job.job_id /\ jobs'[k] = jobs[k]
           /\ jobs'[job.job_id] = job
           /\ task'[job.job_id].pc = "start"]_vars

\* a second job has just been created while the worker of the first is suspended
C11_Witness ==
  /\ response.endpoint = "create_job"
  /\ response.body.job_id = 2
  /\ jobs[1].status = "processing"
  /\ task[1].pc \in {"download", "chunks", "dispatch"}
  /\ task[2].pc = "start"

\* C12: get_job changes neither the job table nor the metadata store; it returns
\* the current record of a known id and not-found for an unknown one; two reads
\* of the same id with no step in between return the same body.
C12_GetJobReadOnly ==
  [][response'.endpoint = "get_job" =>
       /\ jobs' = jobs
       /\ job_meta' = job_meta
       /\ response'.body =
            IF response'.request \in DOMAIN jobs THEN jobs[response'.request] ELSE NotFound
       /\ (response.endpoint = "get_job" /\ response.request = response'.request) =>
            response'.body = response.body]_vars

\* a read has returned the record of a job whose worker is suspended at dispatch,
\* while the other identifier is still unknown
C12_Witness ==
  /\ response.endpoint = "get_job"
  /\ response.request = 1
  /\ 1 \in DOMAIN jobs
  /\ response.body = jobs[1]
  /\ response.body.status = "processing"
  /\ task[1].pc = "dispatch"
  /\ get_job(2) = NotFound

\* C15: the active-job count of the health endpoint is the number of jobs whose
\* status is pending or processing, and a health check changes no job record.
C15_HealthCountsActive ==
  /\ [](health.active_jobs =
          Cardinality({j \in DOMAIN jobs : jobs[j].status \in {"pending", "processing"}}))
  /\ [][response'.endpoint = "health" =>
          /\ jobs' = jobs
          /\ response'.body = health
          /\ response'.body.active_jobs =
               Cardinality({j \in DOMAIN jobs :
                              jobs[j].status \in {"pending", "processing"}})]_vars

\* a health check has reported two active jobs, one pending and one processing
C15_Witness ==
  /\ response.endpoint = "health"
  /\ response.body.active_jobs = 2
  /\ \E j, k \in DOMAIN jobs : jobs[j].status = "pending" /\ jobs[k].status = "processing"

(***************************************************************************)
(* Properties of shutdown and of the order of the worker's steps.          *)
(***************************************************************************)
\* C19: right after the shutdown handler no job is pending or processing; every
\* job that was is failed with the error "Server shutting down" and a
\* completed_at, its other fields unchanged; every other job is unchanged.
C19_ShutdownFrame ==
  [][(~shutdownDone /\ shutdownDone') =>
       /\ DOMAIN jobs' = DOMAIN jobs
       /\ \A j \in DOMAIN jobs' : jobs'[j].status \notin {"pending", "processing"}
       /\ \A j \in DOMAIN jobs :
            IF jobs[j].status \in {"pending", "processing"}
              THEN /\ jobs'[j].completed_at # None
                   /\ jobs'[j] = [jobs[j] EXCEPT !.status = "failed",
                                                 !.error = Some(ShutdownError),
                                                 !.completed_at = jobs'[j].completed_at]
              ELSE jobs'[j] = jobs[j]]_vars

\* shutdown has just run over a completed job, a pending job or a job at dispatch
C19_Witness ==
  /\ shutdownDone
  /\ \A j \in DOMAIN jobs : task[j].pc \in {"start", "dispatch", "done"}
  /\ \E j, k \in DOMAIN jobs :
       /\ jobs[j].status = "completed" /\ jobs[j].error = None /\ task[j].pc = "done"
       /\ jobs[k].status = "failed" /\ jobs[k].error = Some(ShutdownError)
       /\ task[k].pc \in {"start", "dispatch"}

\* the steps of a worker in the order the pipeline prescribes
WorkerOrder == <<"processing", "download", "dispatch", "completed", "callback">>

IsPrefix(s, t) == Len(s) <= Len(t) /\ \A i \in 1..Len(s) : s[i] = t[i]

\* C20: the steps of each worker come in the order processing, download,
\* dispatch, completed, callback, cut short only by a failure before completed;
\* dispatch is invoked only after the download answered 200, a result is stored
\* only after dispatch returned, and a worker never makes a pending job terminal
\* without having set it to processing.
C20_WorkerOrder ==
  /\ [](\A j \in DOMAIN jobs :
          LET ev == hist[j].events
          IN  /\ \/ IsPrefix(ev, WorkerOrder)
                 \/ /\ Len(ev) \in 2..4
                    /\ ev[Len(ev)] = "failed"
                    /\ IsPrefix(SubSeq(ev, 1, Len(ev) - 1), WorkerOrder)
              /\ (\E i \in 1..Len(ev) : ev[i] = "dispatch") =>
                   hist[j].download_status = Some(200)
              /\ task[j].pc = "dispatch" => hist[j].download_status = Some(200)
              /\ jobs[j].result # None =>
                   /\ hist[j].dispatch_ok
                   /\ \E i \in 1..Len(ev) : ev[i] = "completed" /\ i > 1 /\ ev[i - 1] = "dispatch")
  /\ [][\A j \in DOMAIN jobs :
          (jobs[j].status = "pending" /\ jobs'[j].status \in Terminal) =>
             \/ ~shutdownDone /\ shutdownDone'
             \/ hist'[j].events[1] = "processing"]_vars

\* one worker has gone through all five steps and another has failed right
\* after setting its job to processing
C20_Witness ==
  \E j, k \in DOMAIN jobs :
    /\ hist[j].events = WorkerOrder
    /\ hist[k].events = <<"processing", "failed">>
    /\ jobs[k].status = "failed"

\* C14: with every worker task scheduled fairly and every await returning or
\* raising (CancelledError included), each created job becomes completed or
\* failed and stays so: no job remains pending or processing forever.
C14_EventuallyTerminal ==
  \A j \in JobIds :
    [](j \in DOMAIN jobs => <>[](j \in DOMAIN jobs /\ jobs[j].status \in Terminal))

\* C16: a POST /transcribe without a filename, or with an extension outside
\* the allowed set, is answered with a client error and never makes a
\* temporary directory or calls the dispatcher; an accepted upload leaves no
\* temporary directory or file behind once it has been answered.
C16_SyncRejectsAndCleans ==
  \A r \in UploadIds :
    sync[r].pc = "done" =>
      /\ Rejects(sync[r].filename) =>
           /\ sync[r].status_code = 400
           /\ ~sync[r].created /\ ~sync[r].dispatched
      /\ sync[r].dir = NoDir

\* C17: in every result of either path the transcript is the texts of the
\* segments joined by single spaces, in segment order.
C17_TranscriptIsJoinedSegments ==
  transcription # None =>
    LET result == transcription.val
    IN  result.transcript =
          Join([i \in 1..Len(result.segments) |-> result.segments[i].text], <<" ">>)

\* the word strings of a list of words or word infos, in order
WordStrings(ws) == [i \in 1..Len(ws) |-> ws[i].word]

\* the words of all segments, one after the other
RECURSIVE AllWords(_)
AllWords(segments) ==
  IF segments = << >> THEN << >>
  ELSE WordStrings(segments[1].words) \o AllWords(Tail(segments))

\* the segments hold these words in order, none dropped or repeated; each
\* holds 1 to 15 words; each but the last ends with a sentence-ending word or
\* holds exactly 15 words; a sentence-ending word is the last of its segment
PartitionWords(segments, words) ==
  LET last(seg) == seg.words[Len(seg.words)].word
  IN  /\ AllWords(segments) = WordStrings(words)
      /\ \A n \in 1..Len(segments) :
           /\ Len(segments[n].words) \in 1..15
           /\ n < Len(segments) =>
                IsSentenceEnd(last(segments[n])) \/ Len(segments[n].words) = 15
           /\ \A k \in 1..(Len(segments[n].words) - 1) :
                ~IsSentenceEnd(segments[n].words[k].word)

\* C18 as stated: for every word sequence the engine returns, the empty one
\* included, the segments of the result partition the words in order, each
\* holds 1 to 15 words, each but the last ends with a sentence-ending word or
\* holds exactly 15 words, and a sentence-ending word is always the last word
\* of its segment.
C18_SegmentsPartitionWords ==
  (use_nemo /\ transcription # None /\ engine_input.val.words # None) =>
    PartitionWords(transcription.val.segments, engine_input.val.words.val)

\* C18, amended: that holds for every word sequence that is not empty; for
\* an empty or absent word sequence the result has a single segment without
\* words, spanning [0, 0] and holding the text, or no segment when there is
\* no text either.
C18_NonEmptyWordsPartitioned ==
  (use_nemo /\ transcription # None) =>
    LET segments == transcription.val.segments
        text == transcription.val.transcript
    IN  IF Truthy(engine_input.val.words)
          THEN PartitionWords(segments, engine_input.val.words.val)
          ELSE segments = IF text # << >> THEN << Segment(0, 0, text, << >>) >> ELSE << >>

\* sixteen plain words have been cut into a segment of fifteen and one of one
C18_Witness ==
  /\ use_nemo /\ transcription # None /\ Truthy(engine_input.val.words)
  /\ Len(engine_input.val.words.val) = 16
  /\ \A i \in 1..16 : ~IsSentenceEnd(engine_input.val.words.val[i].word)
  /\ Len(transcription.val.segments) = 2
  /\ Len(transcription.val.segments[1].words) = 15

\* a Job record as a caller sees it, without what differs between any two
\* jobs: the identifier and the clock readings
Anonymous(job) ==
  [ recording_id |-> job.recording_id, status |-> job.status, progress |-> job.progress,
    error |-> job.error,
    result |-> IF job.result = None THEN None
               ELSE Some([job.result.val EXCEPT !.job_id = 0]) ]

\* how far the worker of job j has got through download and dispatch
Stage(j) == SelectSeq(hist[j].events, LAMBDA e : e # "callback")

\* the step of the pipeline that raised into the worker, if one did
RaisedBy(j) == IF hist[j].raised = None THEN None ELSE Some(hist[j].raised.val[1])

\* the status in which the shutdown handler found the job, if it found it active
ShutdownFound(j) ==
  IF hist[j].first_terminal # None /\ hist[j].first_terminal.val.error = Some(ShutdownError)
    THEN IF hist[j].shutdown_hit THEN "processing" ELSE "pending"
    ELSE "none"

\* two jobs for the same recording whose workers have got equally far, whose
\* download and dispatch were answered alike (the same status, the same step
\* raising, the same result) and which the shutdown handler treated alike
SameOutcomes(j, k) ==
  /\ jobs[j].recording_id = jobs[k].recording_id
  /\ Stage(j) = Stage(k)
  /\ hist[j].download_status = hist[k].download_status
  /\ RaisedBy(j) = RaisedBy(k)
  /\ hist[j].dispatch_ok = hist[k].dispatch_ok
  /\ ShutdownFound(j) = ShutdownFound(k)

\* what create_job answers shows nothing but the recording id of the request
CreateAnswerHidesMetadata ==
  response.endpoint = "create_job" =>
    Anonymous(response.body) = Anonymous(JobInfo(0, response.request.recording_id, 0))

\* C13 as stated: jobs that differ only in audio URL, callback URL or
\* requested language, with the same download and dispatch outcomes, show
\* identical records through create_job and get_job.
C13_MetadataNeverVisible ==
  /\ CreateAnswerHidesMetadata
  /\ \A j, k \in DOMAIN jobs :
       SameOutcomes(j, k) => Anonymous(get_job(j)) = Anonymous(get_job(k))

\* C25: the job table and the metadata store always have the same keys, a
\* worker exists only for a job that has metadata, no entry is ever removed
\* from either, and the metadata of a job and its job_id, recording_id and
\* created_at never change once create_job has returned.
C25_TablesAgree ==
  [][/\ DOMAIN jobs' = DOMAIN job_meta'
     /\ \A j \in JobIds : task'[j].pc # "none" => j \in DOMAIN job_meta'
     /\ DOMAIN jobs \subseteq DOMAIN jobs'
     /\ DOMAIN job_meta \subseteq DOMAIN job_meta'
     /\ \A j \in DOMAIN jobs :
          /\ job_meta'[j] = job_meta[j]
          /\ jobs'[j].job_id = jobs[j].job_id
          /\ jobs'[j].recording_id = jobs[j].recording_id
          /\ jobs'[j].created_at = jobs[j].created_at]_vars

\* two jobs with different metadata, the first completed and the second
\* failed by its worker
C25_Witness ==
  /\ DOMAIN jobs = {1, 2} /\ DOMAIN job_meta = {1, 2}
  /\ job_meta[1] # job_meta[2]
  /\ jobs[1].status = "completed" /\ hist[1].exit = "completed"
  /\ jobs[2].status = "failed" /\ hist[2].exit = "failed"
  /\ jobs[1].created_at = 0 /\ jobs[2].created_at > 0

\* C24: a worker task is launched for a job by the create_job that made it
\* and at no other time, every job of the table has one, and a step of the
\* worker of a job leaves the record of every other job as it was.
C24_OneWorkerOwnRecord ==
  [][\A j \in JobIds :
       /\ j \in DOMAIN jobs' => task'[j].pc # "none"
       /\ (task'[j].pc = "start" /\ task[j].pc # "start") =>
            /\ task[j].pc = "none" /\ j \notin DOMAIN jobs
            /\ response'.endpoint = "create_job" /\ response'.body.job_id = j
       /\ (task[j].pc # "none" /\ task'[j] # task[j]) =>
            \A k \in DOMAIN jobs \ {j} : jobs'[k] = jobs[k]]_vars

\* the worker of the first job has failed while the second job is half-way
C24_Witness ==
  /\ DOMAIN jobs = {1, 2} /\ ~shutdownDone
  /\ jobs[1].status = "failed" /\ hist[1].exit = "failed"
  /\ jobs[2].status = "processing" /\ jobs[2].progress = 4
  /\ task[2].pc = "dispatch"
  /\ jobs[2].error = None /\ jobs[2].result = None

\* C21: the result stored in a completed job carries the job_id and the
\* recording_id of that job and the language given when the job was created;
\* the result answered by POST /transcribe carries no job_id and the
\* recording_id and language of the request.
C21_ResultIsStamped ==
  /\ \A j \in DOMAIN jobs :
       (jobs[j].status = "completed" /\ jobs[j].result # None) =>
          /\ jobs[j].result.val.job_id = jobs[j].job_id
          /\ jobs[j].result.val.recording_id = jobs[j].recording_id
          /\ jobs[j].result.val.language = job_meta[j].language
  /\ \A r \in UploadIds :
       sync[r].result # None =>
          /\ sync[r].result.val.job_id = None
          /\ sync[r].result.val.recording_id = sync[r].recording_id
          /\ sync[r].result.val.language = sync[r].language

\* a job created for language "es" has completed and holds its result
C21_Witness ==
  \E j \in DOMAIN jobs :
    /\ job_meta[j].language = "es"
    /\ jobs[j].status = "completed" /\ jobs[j].result # None
    /\ jobs[j].result.val.language = "es"
    /\ task[j].pc = "done"

\* start and end of a sequence of timed words
FirstStart(words) == words[1].start
LastEnd(words) == words[Len(words)].end

\* C22: in every result of either path, a segment that has words starts with
\* its first word and ends with its last word, start <= end for the segment
\* and for each of its words, and word starts never decrease within a segment
\* nor from one segment to the next.
C22_SegmentsBoundTheirWords ==
  transcription # None =>
    LET segments == transcription.val.segments
        timed == SelectSeq(segments, LAMBDA seg : seg.words # << >>)
    IN  /\ \A n \in 1..Len(timed) :
             /\ timed[n].start = FirstStart(timed[n].words)
             /\ timed[n].end = LastEnd(timed[n].words)
             /\ timed[n].start <= timed[n].end
             /\ \A k \in 1..Len(timed[n].words) :
                  /\ timed[n].words[k].start <= timed[n].words[k].end
                  /\ k > 1 => timed[n].words[k - 1].start <= timed[n].words[k].start
        /\ \A n \in 2..Len(timed) :
             timed[n - 1].words[Len(timed[n - 1].words)].start <= FirstStart(timed[n].words)

\* an answer of the engine with nothing to transcribe from
Malformed(a) ==
  \/ a.answer \in {"no_model", "empty_list", "first_empty"}
  \/ a.text = None /\ a.words = None

\* C23: the external path raises and returns no result when the model cannot
\* be loaded or the engine answers with an empty list, with a first element
\* that is an empty list, or with a hypothesis that has neither text nor word
\* timings; the synthetic path never raises and returns 4 to all of the lines
\* of its conversation as segments, with a non-empty transcript.
C23_EngineErrorsAndMockTotals ==
  /\ (use_nemo /\ engine_input # None /\ Malformed(engine_input.val)) =>
        transcription = None
  /\ (~use_nemo /\ engine_input # None) =>
        /\ engine_error = None
        /\ transcription # None =>
             /\ Len(transcription.val.segments) \in
                  4..Len(MOCK_CONVERSATIONS[engine_input.val.conversation])
             /\ transcription.val.transcript # << >>

====
